---- MODULE Spec2Model ----
(***************************************************************************)
(* Leaderboard persistence and ranking engine of the video game scoring   *)
(* system: player_class.Player, score_manager.ScoreValidator and          *)
(* score_manager.Leaderboard, driven by game_main.GameSession.            *)
(*                                                                         *)
(* A Python str is a sequence of one-character strings, so that           *)
(* formatting a record into a file line and parsing it back are computed  *)
(* character by character, as str(), join(), strip(), split() and int()   *)
(* compute them.  The file is its text: one flat sequence of characters.  *)
(***************************************************************************)
EXTENDS Integers, Sequences, FiniteSets, TLC

(***************************************************************************)
(* Program constants                                                       *)
(***************************************************************************)
MaxScore == 10000
MaxNameLen == 20
SaveTop == 10
DisplayTop == 5
HeaderLines == 2

(***************************************************************************)
(* Bounds of the model                                                     *)
(***************************************************************************)
MaxOps == 3
MaxFail == 1
MaxRankOps == 4
MaxValOps == 1

(***************************************************************************)
(* Python str and int primitives                                           *)
(***************************************************************************)
Min(a, b) == IF a <= b THEN a ELSE b
Max(a, b) == IF a >= b THEN a ELSE b

Digits == <<"0", "1", "2", "3", "4", "5", "6", "7", "8", "9">>
IsDigit(c) == \E i \in 1..10 : Digits[i] = c
DigitVal(c) == (CHOOSE i \in 1..10 : Digits[i] = c) - 1
IsSpace(c) == c \in {" ", "\t", "\n", "\r"}

Rep(c, n) == [i \in 1..n |-> c]

\* str(n) of an int
RECURSIVE NatToStr(_)
NatToStr(n) == IF n < 10 THEN <<Digits[n + 1]>>
               ELSE NatToStr(n \div 10) \o <<Digits[(n % 10) + 1]>>
IntToStr(n) == IF n < 0 THEN <<"-">> \o NatToStr(0 - n) ELSE NatToStr(n)

\* s.strip()
RECURSIVE lstrip(_)
lstrip(s) == IF s # <<>> /\ IsSpace(Head(s)) THEN lstrip(Tail(s)) ELSE s
RECURSIVE rstrip(_)
rstrip(s) == IF s # <<>> /\ IsSpace(s[Len(s)])
             THEN rstrip(SubSeq(s, 1, Len(s) - 1)) ELSE s
strip(s) == rstrip(lstrip(s))

\* s.split(sep) for a one-character sep: always at least one part
RECURSIVE SplitAcc(_, _, _, _)
SplitAcc(s, sep, cur, acc) ==
    IF s = <<>> THEN Append(acc, cur)
    ELSE IF Head(s) = sep THEN SplitAcc(Tail(s), sep, <<>>, Append(acc, cur))
    ELSE SplitAcc(Tail(s), sep, Append(cur, Head(s)), acc)
split(s, sep) == SplitAcc(s, sep, <<>>, <<>>)

\* sep.join(parts)
RECURSIVE join(_, _)
join(sep, parts) ==
    IF parts = <<>> THEN <<>>
    ELSE IF Len(parts) = 1 THEN parts[1]
    ELSE parts[1] \o <<sep>> \o join(sep, Tail(parts))

\* The digits part of an int literal: digits with single underscores between
\* them.  Returns -1 when malformed, else the value.
RECURSIVE DigitsVal(_, _, _)
DigitsVal(s, acc, prevDigit) ==
    IF s = <<>> THEN (IF prevDigit THEN acc ELSE -1)
    ELSE IF IsDigit(Head(s)) THEN DigitsVal(Tail(s), acc * 10 + DigitVal(Head(s)), TRUE)
    ELSE IF Head(s) = "_" /\ prevDigit THEN DigitsVal(Tail(s), acc, FALSE)
    ELSE -1

\* int(s) of a str: surrounding whitespace and one sign are allowed; anything
\* else raises ValueError.
ParseInt(s) ==
    LET t == strip(s)
        neg == t # <<>> /\ Head(t) = "-"
        signed == t # <<>> /\ Head(t) \in {"-", "+"}
        body == IF signed THEN Tail(t) ELSE t
        v == DigitsVal(body, 0, FALSE)
    IN  IF v < 0 THEN [err |-> TRUE, val |-> 0]
        ELSE [err |-> FALSE, val |-> IF neg THEN 0 - v ELSE v]

\* A score argument is a str (from input()) or an int (the sample data).
StrArg(s) == [isstr |-> TRUE, chars |-> s, val |-> 0]
IntArg(v) == [isstr |-> FALSE, chars |-> <<>>, val |-> v]

\* int(score)
ToInt(score) == IF score.isstr THEN ParseInt(score.chars)
                ELSE [err |-> FALSE, val |-> score.val]

(***************************************************************************)
(* ScoreValidator                                                          *)
(***************************************************************************)
\* validate_score with the upper bound excluded
validate_score_excl(score) ==
    LET r == ToInt(score)
    IN  IF r.err THEN FALSE
        ELSE IF r.val < 0 THEN FALSE
        ELSE IF r.val >= MaxScore THEN FALSE
        ELSE TRUE

validate_score(score) ==
    LET r == ToInt(score)
    IN  IF r.err THEN FALSE
        ELSE IF r.val < 0 THEN FALSE
        ELSE IF r.val > MaxScore THEN FALSE
        ELSE TRUE

validate_name(name) ==
    IF name = <<>> \/ Len(strip(name)) = 0 THEN FALSE
    ELSE IF Len(name) > MaxNameLen THEN FALSE
    ELSE TRUE

(***************************************************************************)
(* Player                                                                  *)
(***************************************************************************)
Player(name, score) ==
    [name |-> name, score |-> score, games_played |-> 1, best_score |-> score,
     score_history |-> <<score>>, current_streak |-> 0]

\* update_score that counts a streak against the previous score
update_score_prev(p, new_score) ==
    [p EXCEPT !.score = new_score,
              !.games_played = p.games_played + 1,
              !.score_history = Append(p.score_history, new_score),
              !.best_score = IF new_score > p.best_score THEN new_score ELSE p.best_score,
              !.current_streak = IF new_score > p.score
                                 THEN p.current_streak + 1 ELSE 0]

\* update_score that takes every new score for the best
update_score_last(p, new_score) ==
    [p EXCEPT !.score = new_score,
              !.games_played = p.games_played + 1,
              !.score_history = Append(p.score_history, new_score),
              !.best_score = new_score,
              !.current_streak = IF new_score > p.best_score
                                 THEN p.current_streak + 1 ELSE 0]

update_score(p, new_score) ==
    [p EXCEPT !.score = new_score,
              !.games_played = p.games_played + 1,
              !.score_history = Append(p.score_history, new_score),
              !.best_score = IF new_score > p.best_score THEN new_score ELSE p.best_score,
              !.current_streak = IF new_score > p.best_score
                                 THEN p.current_streak + 1 ELSE 0]

RECURSIVE SumSeq(_)
SumSeq(s) == IF s = <<>> THEN 0 ELSE Head(s) + SumSeq(Tail(s))

\* sum / len as the exact fraction <<numerator, denominator>>; 0 is <<0, 1>>
get_average_score(p) ==
    IF Len(p.score_history) = 0 THEN <<0, 1>>
    ELSE <<SumSeq(p.score_history), Len(p.score_history)>>

(***************************************************************************)
(* Leaderboard.  self.players is a dict, which keeps insertion order: a   *)
(* sequence of Player records with distinct keys.  A record is stored     *)
(* under the key it was inserted with, kept in the field key.             *)
(***************************************************************************)
Entry(key, p) == [key |-> key, rec |-> p]

\* position of key in the dict, 0 when absent
Find(ps, key) ==
    IF \E i \in 1..Len(ps) : ps[i].key = key
    THEN CHOOSE i \in 1..Len(ps) : ps[i].key = key
    ELSE 0

\* self.players[key] = p : a present key keeps its position
DictSet(ps, key, p) ==
    IF Find(ps, key) = 0 THEN Append(ps, Entry(key, p))
    ELSE [ps EXCEPT ![Find(ps, key)] = Entry(key, p)]

\* list(self.players.values())
Values(ps) == [i \in 1..Len(ps) |-> ps[i].rec]

\* sorted(values, key=score, reverse=True): stable, so equal scores keep the
\* order of the input
\* the insertion of a sort that is not stable
RECURSIVE InsertDescUnstable(_, _)
InsertDescUnstable(sorted, p) ==
    IF sorted = <<>> THEN <<p>>
    ELSE IF Head(sorted).score > p.score
         THEN <<Head(sorted)>> \o InsertDescUnstable(Tail(sorted), p)
         ELSE <<p>> \o sorted

RECURSIVE InsertDesc(_, _)
InsertDesc(sorted, p) ==
    IF sorted = <<>> THEN <<p>>
    ELSE IF Head(sorted).score >= p.score
         THEN <<Head(sorted)>> \o InsertDesc(Tail(sorted), p)
         ELSE <<p>> \o sorted
RECURSIVE SortedDesc(_, _)
SortedDesc(vals, acc) ==
    IF vals = <<>> THEN acc ELSE SortedDesc(Tail(vals), InsertDesc(acc, Head(vals)))

\* xs[:n], n of either sign
Slice(xs, n) ==
    IF n >= 0 THEN SubSeq(xs, 1, Min(n, Len(xs)))
    ELSE SubSeq(xs, 1, Max(Len(xs) + n, 0))

get_top_players(ps, n) == Slice(SortedDesc(Values(ps), <<>>), n)

\* the None that get_player_stats returns for an absent name
NoStats ==
    [found |-> FALSE, name |-> <<>>, current_score |-> 0, best_score |-> 0,
     games_played |-> 0, average_score |-> <<0, 1>>, current_streak |-> 0,
     score_history |-> <<>>]

get_player_stats(ps, name) ==
    IF Find(ps, name) = 0 THEN NoStats
    ELSE LET player == ps[Find(ps, name)].rec
         IN  [found |-> TRUE,
              name |-> player.name,
              current_score |-> player.score,
              best_score |-> player.best_score,
              games_played |-> player.games_played,
              average_score |-> get_average_score(player),
              current_streak |-> player.current_streak,
              score_history |-> player.score_history]

(***************************************************************************)
(* The persistence file                                                    *)
(***************************************************************************)
NoFile == [exists |-> FALSE, text |-> <<>>]

\* The two header lines.  The first carries the time of the save and the
\* second is "=" * 60; neither is ever parsed, so each is one token here.
HeaderText == <<"Leaderboard - Updated: <now>", "\n", "=" , "\n">>

\* f"{name}|{score}|{games_played}|{best_score}|{','.join(map(str, history))}\n"
FormatLine(p) ==
    p.name \o <<"|">> \o IntToStr(p.score) \o <<"|">> \o IntToStr(p.games_played)
    \o <<"|">> \o IntToStr(p.best_score) \o <<"|">>
    \o join(",", [i \in 1..Len(p.score_history) |-> IntToStr(p.score_history[i])])
    \o <<"\n">>

RECURSIVE Concat(_)
Concat(ss) == IF ss = <<>> THEN <<>> ELSE Head(ss) \o Concat(Tail(ss))

\* everything save_leaderboard writes
SaveText(ps) ==
    LET top == get_top_players(ps, SaveTop)
    IN  HeaderText \o Concat([i \in 1..Len(top) |-> FormatLine(top[i])])

\* Outcome of one save: the whole text arrives (io.ok), or the error is
\* raised by open() and the file is as it was, or the file was truncated by
\* open() and only the first io.cut characters reached it.
IoOk == [ok |-> TRUE, opened |-> TRUE, cut |-> 0]
IoOpenFails == [ok |-> FALSE, opened |-> FALSE, cut |-> 0]
IoCut(k) == [ok |-> FALSE, opened |-> TRUE, cut |-> k]

\* save_leaderboard that opens the file to append
save_leaderboard_append(ps, f, io) ==
    IF io.ok THEN [exists |-> TRUE, text |-> f.text \o SaveText(ps)]
    ELSE IF ~io.opened THEN f
    ELSE [exists |-> TRUE, text |-> f.text \o SubSeq(SaveText(ps), 1, io.cut)]

save_leaderboard(ps, f, io) ==
    IF io.ok THEN [exists |-> TRUE, text |-> SaveText(ps)]
    ELSE IF ~io.opened THEN f
    ELSE [exists |-> TRUE, text |-> SubSeq(SaveText(ps), 1, io.cut)]

\* f.readlines(), each line without its newline
readlines(text) ==
    LET parts == split(text, "\n")
    IN  IF parts[Len(parts)] = <<>> THEN SubSeq(parts, 1, Len(parts) - 1) ELSE parts

AllInts(strs) == \A i \in 1..Len(strs) : ~ParseInt(strs[i]).err

\* The body of the loop of load_leaderboard for one non-blank line: err when
\* a part is missing (IndexError) or is no int (ValueError)
ParseLine(line) ==
    LET parts == split(strip(line), "|")
        hist == IF Len(parts) >= 5 THEN split(parts[5], ",") ELSE <<>>
    IN  IF Len(parts) < 5
           \/ ParseInt(parts[2]).err \/ ParseInt(parts[3]).err
           \/ ParseInt(parts[4]).err \/ ~AllInts(hist)
        THEN [err |-> TRUE, key |-> <<>>, rec |-> Player(<<>>, 0)]
        ELSE [err |-> FALSE,
              key |-> parts[1],
              rec |-> [Player(parts[1], ParseInt(parts[2]).val) EXCEPT
                          !.games_played = ParseInt(parts[3]).val,
                          !.best_score = ParseInt(parts[4]).val,
                          !.score_history =
                              [i \in 1..Len(hist) |-> ParseInt(hist[i]).val]]]

\* The loop of load_leaderboard: the exception ends the loop, and the
\* records stored by then stay in self.players
RECURSIVE LoadLines(_, _)
LoadLines(lines, ps) ==
    IF lines = <<>> THEN [players |-> ps, error |-> FALSE]
    ELSE IF strip(Head(lines)) = <<>> THEN LoadLines(Tail(lines), ps)
    ELSE LET r == ParseLine(Head(lines))
         IN  IF r.err THEN [players |-> ps, error |-> TRUE]
             ELSE LoadLines(Tail(lines), DictSet(ps, r.key, r.rec))

\* load_leaderboard on the empty dict of __init__
load_leaderboard(f) ==
    IF ~f.exists THEN [players |-> <<>>, error |-> FALSE]
    ELSE LET lines == readlines(f.text)
         IN  LoadLines(SubSeq(lines, HeaderLines + 1, Len(lines)), <<>>)

\* add_score that validates the score only after it has stored the player
add_score_late(ps, f, name, score, io) ==
    IF ~validate_name(name) THEN [ok |-> FALSE, players |-> ps, file |-> f]
    ELSE LET v == ToInt(score).val
             ps2 == IF Find(ps, name) # 0
                    THEN [ps EXCEPT ![Find(ps, name)].rec = update_score(@, v)]
                    ELSE DictSet(ps, name, Player(name, v))
         IN  IF ~validate_score(score) THEN [ok |-> FALSE, players |-> ps2, file |-> f]
             ELSE [ok |-> TRUE, players |-> ps2, file |-> save_leaderboard(ps2, f, io)]

\* add_score that gives up the change when the save fails
add_score_undo(ps, f, name, score, io) ==
    IF ~validate_name(name) THEN [ok |-> FALSE, players |-> ps, file |-> f]
    ELSE IF ~validate_score(score) THEN [ok |-> FALSE, players |-> ps, file |-> f]
    ELSE LET v == ToInt(score).val
             ps2 == IF Find(ps, name) # 0
                    THEN [ps EXCEPT ![Find(ps, name)].rec = update_score(@, v)]
                    ELSE DictSet(ps, name, Player(name, v))
         IN  [ok |-> TRUE, players |-> IF io.ok THEN ps2 ELSE ps,
              file |-> save_leaderboard(ps2, f, io)]

\* add_score: the result, the dict and the file after the call
add_score(ps, f, name, score, io) ==
    IF ~validate_name(name) THEN [ok |-> FALSE, players |-> ps, file |-> f]
    ELSE IF ~validate_score(score) THEN [ok |-> FALSE, players |-> ps, file |-> f]
    ELSE LET v == ToInt(score).val
             ps2 == IF Find(ps, name) # 0
                    THEN [ps EXCEPT ![Find(ps, name)].rec = update_score(@, v)]
                    ELSE DictSet(ps, name, Player(name, v))
         IN  [ok |-> TRUE, players |-> ps2, file |-> save_leaderboard(ps2, f, io)]

(***************************************************************************)
(* GameSession.add_sample_data                                             *)
(***************************************************************************)
Alice == <<"A", "l", "i", "c", "e">>
Bob == <<"B", "o", "b">>
Charlie == <<"C", "h", "a", "r", "l", "i", "e">>
Diana == <<"D", "i", "a", "n", "a">>
Eve == <<"E", "v", "e">>
Frank == <<"F", "r", "a", "n", "k">>
Grace == <<"G", "r", "a", "c", "e">>
Henry == <<"H", "e", "n", "r", "y">>

sample_players ==
    << <<Alice, 8500>>, <<Bob, 7200>>, <<Charlie, 9100>>, <<Diana, 6800>>,
       <<Eve, 8900>>, <<Frank, 7500>>, <<Grace, 8200>>, <<Henry, 6500>> >>

(***************************************************************************)
(* State                                                                   *)
(*   players   self.players of the running process                         *)
(*   file      leaderboard.txt                                             *)
(*   sample_i  position of add_sample_data in its loop, 0 outside it       *)
(*   last      the last call, its arguments and what it returned           *)
(*   log       the (name, score) of every add_score of this run that       *)
(*             returned True, in order                                     *)
(*   loaded    self.players as __init__ left it                            *)
(*   nops      calls that changed self.players, and restarts, so far       *)
(*   nfail     saves that failed so far                                    *)
(***************************************************************************)
VARIABLES players, file, sample_i, last, log, loaded, nops, nfail

vars == <<players, file, sample_i, last, log, loaded, nops, nfail>>

NoCall ==
    [op |-> "init", name |-> <<>>, score |-> StrArg(<<>>), ok |-> FALSE,
     saved |-> FALSE, n |-> 0, top |-> <<>>, stats |-> NoStats, error |-> FALSE]

Init ==
    /\ players = <<>>
    /\ file = NoFile
    /\ sample_i = 0
    /\ last = NoCall
    /\ log = <<>>
    /\ loaded = <<>>
    /\ nops = 0
    /\ nfail = 0

\* What a save of ps can do: succeed, fail in open(), or fail after the first
\* k characters reached the file.  cuts says which k a specification follows:
\* "any", "zero" (the file is left empty) or "none" (the disk never fails).
Outcomes(ps, cuts) ==
    IF cuts = "none" THEN {IoOk}
    ELSE {IoOk, IoOpenFails}
         \cup {IoCut(k) : k \in IF cuts = "any" THEN 0..(Len(SaveText(ps)) - 1) ELSE {0}}

\* The outcomes the bounds still allow
Allowed(ps, cuts) == IF nfail < MaxFail THEN Outcomes(ps, cuts) ELSE {IoOk}

\* One call add_score(name, score), whose save, if it comes to it, ends as io
DoAdd(name, score, io) ==
    LET r == add_score(players, file, name, score, io)
    IN  /\ players' = r.players
        /\ file' = r.file
        /\ last' = [NoCall EXCEPT !.op = "add", !.name = name, !.score = score,
                                  !.ok = r.ok, !.saved = r.ok /\ io.ok]
        /\ log' = IF r.ok THEN Append(log, <<name, ToInt(score).val>>) ELSE log
        /\ nfail' = IF r.ok /\ ~io.ok THEN nfail + 1 ELSE nfail
        /\ UNCHANGED loaded

\* the dict a call that passes validation saves
Added(name, score) == add_score(players, file, name, score, IoOpenFails).players

AddScoreWith(Names, Scores, cuts, maxOps) ==
    /\ sample_i = 0
    /\ \E name \in Names, score \in Scores :
         IF validate_name(name) /\ validate_score(score)
         THEN /\ nops < maxOps
              /\ nops' = nops + 1
              /\ \E io \in Allowed(Added(name, score), cuts) : DoAdd(name, score, io)
         ELSE /\ nops' = nops
              /\ DoAdd(name, score, IoOk)
    /\ UNCHANGED sample_i

\* The process ends and a new one constructs its Leaderboard from the file
RestartWith(maxOps) ==
    /\ sample_i = 0
    /\ nops < maxOps
    /\ LET r == load_leaderboard(file)
       IN  /\ players' = r.players
           /\ loaded' = r.players
           /\ last' = [NoCall EXCEPT !.op = "restart", !.error = r.error]
    /\ log' = <<>>
    /\ nops' = nops + 1
    /\ UNCHANGED <<file, sample_i, nfail>>

TopPlayersWith(Ns) ==
    /\ sample_i = 0
    /\ \E n \in Ns :
         last' = [NoCall EXCEPT !.op = "top", !.n = n, !.top = get_top_players(players, n)]
    /\ UNCHANGED <<players, file, sample_i, log, loaded, nops, nfail>>

PlayerStatsWith(Names) ==
    /\ sample_i = 0
    /\ \E name \in Names :
         last' = [NoCall EXCEPT !.op = "stats", !.name = name,
                                !.stats = get_player_stats(players, name)]
    /\ UNCHANGED <<players, file, sample_i, log, loaded, nops, nfail>>

\* Menu choice 5: add_sample_data starts its loop
ChooseSampleWith(maxOps) ==
    /\ sample_i = 0
    /\ nops < maxOps
    /\ sample_i' = 1
    /\ nops' = nops + 1
    /\ last' = [NoCall EXCEPT !.op = "sample"]
    /\ UNCHANGED <<players, file, log, loaded, nfail>>

\* One turn of the loop of add_sample_data
SampleStepWith(cuts) ==
    /\ sample_i >= 1
    /\ LET name == sample_players[sample_i][1]
           score == IntArg(sample_players[sample_i][2])
       IN  \E io \in Allowed(Added(name, score), cuts) : DoAdd(name, score, io)
    /\ sample_i' = IF sample_i = Len(sample_players) THEN 0 ELSE sample_i + 1
    /\ UNCHANGED nops

(***************************************************************************)
(* Spec: the Leaderboard called through its methods, with a name that     *)
(* holds the field separator of the file among the names.  A failing save *)
(* fails in open() or leaves the file empty.                               *)
(***************************************************************************)
Inj == <<"a", "|", "5">>
InjBad == <<"b", "|", "x">>
Str100 == StrArg(<<"1", "0", "0">>)
Str50 == StrArg(<<"5", "0">>)
Str200 == StrArg(<<"2", "0", "0">>)
StrX == StrArg(<<"x">>)

ApiNames == {Alice, Inj}
ApiScores == {Str100, Str50, Str200, StrX}

AddScore == AddScoreWith(ApiNames, ApiScores, "zero", MaxOps)
Restart == RestartWith(MaxOps)

Next == AddScore \/ Restart

Spec == Init /\ [][Next]_vars

(***************************************************************************)
(* SpecLoad: a failing save may leave any prefix of the text, and a name  *)
(* may hold the separator followed by a letter.                            *)
(***************************************************************************)
LoadNames == {Alice, InjBad}
LoadScores == {Str100, Str50}

AddScoreLoad == AddScoreWith(LoadNames, LoadScores, "any", MaxOps)

NextLoad == AddScoreLoad \/ Restart

SpecLoad == Init /\ [][NextLoad]_vars

(***************************************************************************)
(* SpecRank: the session of game_main: the sample data, three more        *)
(* players, rankings and restarts.                                         *)
(***************************************************************************)
Ivy == <<"I", "v", "y">>
Jack == <<"J", "a", "c", "k">>
Kim == <<"K", "i", "m">>
Str9100 == StrArg(<<"9", "1", "0", "0">>)
Str6000 == StrArg(<<"6", "0", "0", "0">>)

RankNames == {Ivy, Jack, Kim}
RankScores == {Str9100, Str6000}

AddScoreRank == AddScoreWith(RankNames, RankScores, "none", MaxRankOps)
ChooseSample == ChooseSampleWith(MaxRankOps)
SampleStep == SampleStepWith("none")
DisplayLeaderboard == TopPlayersWith({DisplayTop})

NextRank ==
    AddScoreRank \/ ChooseSample \/ SampleStep \/ DisplayLeaderboard

SpecRank == Init /\ [][NextRank]_vars

(***************************************************************************)
(* SpecValidate: add_score on the boundaries of the two validators, and   *)
(* get_player_stats.                                                       *)
(***************************************************************************)
Empty == <<>>
Blank == <<" ">>
N20 == Rep("x", MaxNameLen)
N21 == Rep("x", MaxNameLen + 1)
Str0 == StrArg(<<"0">>)
Str10000 == StrArg(<<"1", "0", "0", "0", "0">>)
Str10001 == StrArg(<<"1", "0", "0", "0", "1">>)
StrNeg == StrArg(<<"-", "1">>)
StrEmpty == StrArg(<<>>)
StrPadded == StrArg(<<" ", "7", " ">>)
StrFloat == StrArg(<<"1", ".", "5">>)

ValNames == {Alice, Empty, Blank, N20, N21}
ValScores == {Str0, Str10000, Str10001, StrNeg, StrX, StrEmpty, StrPadded, StrFloat}

AddScoreVal == AddScoreWith(ValNames, ValScores, "zero", MaxValOps)
RestartVal == RestartWith(MaxValOps)
PlayerStats == PlayerStatsWith({Alice, Bob})

NextValidate == AddScoreVal \/ RestartVal \/ PlayerStats

SpecValidate == Init /\ [][NextValidate]_vars

(***************************************************************************)
(* Properties                                                              *)
(***************************************************************************)
Keys(ps) == {ps[i].key : i \in 1..Len(ps)}
MaxOf(s) == CHOOSE m \in {s[i] : i \in 1..Len(s)} : \A i \in 1..Len(s) : s[i] <= m

\* C3: an add_score that fails validation of the name or of the score returns
\* failure and changes neither the player map (no record created, no field of
\* any record changed) nor the file.
C3_FailedAddChangesNothing ==
    [][(last'.op = "add" /\ ~last'.ok) => (players' = players /\ file' = file)]_vars

C3_Witness ==
    /\ last.op = "add" /\ ~last.ok
    /\ validate_name(last.name) /\ ~validate_score(last.score)
    /\ players # <<>> /\ file.exists

\* the condition C4 gives for success
C4_Accepts(name, score) ==
    /\ ~ToInt(score).err
    /\ 0 <= ToInt(score).val /\ ToInt(score).val <= 10000
    /\ Len(strip(name)) > 0
    /\ Len(name) <= 20

\* C4: add_score succeeds exactly when the score parses as an integer v with
\* 0 <= v <= 10000 and the name has a non-zero trimmed length and at most 20
\* characters; 10000 and a 20-character name are accepted, and 10001, a
\* negative score, a non-integer score, an empty name, a whitespace-only name
\* and a 21-character name are each rejected with a false result.
C4_SucceedsExactlyWhenValid ==
    last.op = "add" =>
        /\ last.ok <=> C4_Accepts(last.name, last.score)
        /\ (last.name \in {Alice, N20} /\ last.score = Str10000) => last.ok
        /\ last.score \in {Str10001, StrNeg, StrX, StrEmpty, StrFloat} => ~last.ok
        /\ last.name \in {Empty, Blank, N21} => ~last.ok

C4_Witness ==
    last.op = "add" /\ last.ok /\ last.name = N20 /\ last.score = Str10000

\* the record stored under key, for a key of the dict
Rec(ps, key) == ps[Find(ps, key)].rec

\* res is what the claim promises of top_players(n) on the dict ps: min(n,
\* number of players) distinct records of ps, in non-increasing order of
\* current_score, no omitted record with a higher current_score than a
\* returned one, and equal scores in the insertion order of ps.
C8_Ranked(res, ps, n) ==
    /\ Len(res) = Min(n, Len(ps))
    /\ \A i \in 1..Len(res) :
         /\ Find(ps, res[i].name) # 0
         /\ Rec(ps, res[i].name) = res[i]
    /\ \A i, j \in 1..Len(res) : i < j =>
         /\ res[i].name # res[j].name
         /\ res[i].score >= res[j].score
         /\ res[i].score = res[j].score => Find(ps, res[i].name) < Find(ps, res[j].name)
    /\ \A k \in 1..Len(ps) :
         (\A i \in 1..Len(res) : res[i].name # ps[k].key) =>
             \A i \in 1..Len(res) : ps[k].rec.score <= res[i].score

\* the scores of the calls of log for name, in order
RECURSIVE Submitted(_, _)
Submitted(lg, name) ==
    IF lg = <<>> THEN <<>>
    ELSE IF Head(lg)[1] = name THEN <<Head(lg)[2]>> \o Submitted(Tail(lg), name)
    ELSE Submitted(Tail(lg), name)

\* C5: for every name whose record was created by an add_score of this run,
\* after each call score_history is the scores submitted for that name in
\* submission order, best_score is their maximum, games_played is their number
\* (1, with best_score = current_score = s and score_history = [s], after the
\* creating call), and calls for other names leave the record alone.
C5_HistoryBestAndCount ==
    /\ \A i \in 1..Len(log) : log[i][1] \in Keys(players)
    /\ \A i \in 1..Len(players) :
         LET key == players[i].key
             p == players[i].rec
             subs == Submitted(log, key)
         IN  key \notin Keys(loaded) =>
               /\ subs # <<>>
               /\ p.name = key
               /\ p.score_history = subs
               /\ p.best_score = MaxOf(subs)
               /\ p.games_played = Len(subs)
               /\ p.score = subs[Len(subs)]
               /\ Len(subs) = 1 =>
                    /\ p.games_played = 1
                    /\ p.best_score = subs[1] /\ p.score = subs[1]
                    /\ p.score_history = <<subs[1]>>

C5_Witness ==
    /\ loaded = <<>>
    /\ Len(players) = 2
    /\ \E i \in 1..2 :
         /\ players[i].rec.games_played = 2
         /\ players[i].rec.best_score > players[i].rec.score
         /\ players[3 - i].rec.games_played = 1
         /\ log[2][1] = players[3 - i].key

\* the successful calls of the scenario of C6
C6_Scenario == << <<Alice, 100>>, <<Alice, 50>>, <<Alice, 200>> >>

\* C6: current_streak is 0 on creation; an update sets it to 0 when the new
\* score is <= the best_score held before the update and to the previous streak
\* plus 1 otherwise; Alice 100, then 50, then 200 ends with current_score 200,
\* best_score 200, games_played 3, score_history [100, 50, 200], current_streak 1.
C6_StreakRule ==
    [][(last'.op = "add" /\ last'.ok) =>
         LET name == last'.name
             v == ToInt(last'.score).val
             after == Rec(players', name)
         IN  /\ Find(players, name) = 0 => after.current_streak = 0
             /\ Find(players, name) # 0 =>
                  after.current_streak =
                      IF v <= Rec(players, name).best_score THEN 0
                      ELSE Rec(players, name).current_streak + 1
             /\ (loaded = <<>> /\ log' = C6_Scenario) =>
                  after = [name |-> Alice, score |-> 200, best_score |-> 200,
                           games_played |-> 3, score_history |-> <<100, 50, 200>>,
                           current_streak |-> 1]]_vars

C6_Witness ==
    /\ loaded = <<>> /\ log = C6_Scenario
    /\ Rec(players, Alice).current_streak = 1

\* C10: when the write fails during an add_score with valid inputs, the call
\* still returns True, the dict is exactly what it is when the write succeeds,
\* get_top_players and get_player_stats answer from that dict, and a later
\* add_score whose write succeeds saves the accumulated state.
C10_FailedSaveKeepsMemory ==
    [][last'.op = "add" =>
         /\ (validate_name(last'.name) /\ validate_score(last'.score)) => last'.ok
         /\ (last'.ok /\ ~last'.saved) =>
              /\ nfail' = nfail + 1
              /\ players' = add_score(players, file, last'.name, last'.score, IoOk).players
              /\ Rec(players', last'.name).score = ToInt(last'.score).val
              /\ C8_Ranked(get_top_players(players', DisplayTop), players', DisplayTop)
              /\ get_player_stats(players', last'.name).found
              /\ get_player_stats(players', last'.name).current_score = ToInt(last'.score).val
         /\ (last'.ok /\ last'.saved) =>
              file' = [exists |-> TRUE, text |-> SaveText(players')]]_vars

C10_Witness ==
    /\ loaded = <<>> /\ nfail = 1 /\ Len(log) = 2
    /\ last.op = "add" /\ last.saved
    /\ Len(players) = 2
    /\ file.text = SaveText(players)

\* C1: for a leaderboard built by successful add_score calls alone, a save
\* followed by the load of a fresh Leaderboard yields, for every player written
\* to the file, a record under the same name with the same current_score,
\* best_score, games_played and score_history.
C1_RoundTrip ==
    [][(last'.op = "restart" /\ loaded = <<>> /\ nfail = 0
        /\ file = [exists |-> TRUE, text |-> SaveText(players)]) =>
         \A i \in 1..Len(get_top_players(players, SaveTop)) :
             LET p == get_top_players(players, SaveTop)[i]
             IN  /\ p.name \in Keys(players')
                 /\ Rec(players', p.name).name = p.name
                 /\ Rec(players', p.name).score = p.score
                 /\ Rec(players', p.name).best_score = p.best_score
                 /\ Rec(players', p.name).games_played = p.games_played
                 /\ Rec(players', p.name).score_history = p.score_history]_vars

\* C2: when a data line of the file fails to parse, the load is abandoned and
\* the Leaderboard is empty: no record of the lines before the bad one is kept.
C2_FailedLoadLeavesEmpty ==
    (last.op = "restart" /\ last.error) => players = <<>>

\* C7: as long as every save succeeded, every record has a non-empty
\* score_history whose length is games_played, best_score = max(score_history),
\* current_score = the last element of score_history, and is stored under its
\* own name.
C7_RecordInvariants ==
    nfail = 0 =>
        \A i \in 1..Len(players) :
            LET p == players[i].rec
            IN  /\ p.score_history # <<>>
                /\ Len(p.score_history) = p.games_played
                /\ p.best_score = MaxOf(p.score_history)
                /\ p.score = p.score_history[Len(p.score_history)]
                /\ p.name = players[i].key

\* C8: for any n >= 0, top_players(n) returns min(n, number of players)
\* distinct records in non-increasing order of current_score, omits no record
\* with a higher score than a returned one, keeps equal scores in insertion
\* order, and changes no state.
C8_TopPlayers ==
    /\ [](\A n \in {0, 1, DisplayTop, SaveTop, Len(players), Len(players) + 1} :
             C8_Ranked(get_top_players(players, n), players, n))
    /\ [][last'.op = "top" =>
            /\ C8_Ranked(last'.top, players, last'.n)
            /\ players' = players /\ file' = file]_vars

C8_Witness ==
    /\ last.op = "top" /\ last.n = 5 /\ Len(last.top) = 5
    /\ Len(players) = 11
    /\ last.top[1].score = last.top[2].score
    /\ last.top[1].name = Charlie /\ last.top[2].name \in RankNames

\* the data lines of the file: the lines after the header, without newlines
AfterHeader(lines) == SubSeq(lines, HeaderLines + 1, Len(lines))
DataLines(f) == AfterHeader(readlines(f.text))

\* the line of record p, without its newline
DropLast(s) == SubSeq(s, 1, Len(s) - 1)
LineOf(p) == DropLast(FormatLine(p))

\* text is the header followed by the lines of the records res, one line each
C9_TextOf(text, res) ==
    /\ text = HeaderText \o Concat([k \in 1..Len(res) |-> FormatLine(res[k])])
    /\ Cardinality({j \in 1..Len(text) : text[j] = "\n"}) = HeaderLines + Len(res)

\* C9: after every add_score that returns True and whose write succeeds, the
\* file is the header and exactly min(10, number of players) data lines: the
\* records with the highest current_score, one line each with its current
\* values, in ranking order; a player below 10th is not in the file, and no
\* player leaves the dict during the run.
C9_FileIsTopTen ==
    /\ []((last.op = "add" /\ last.ok /\ last.saved) =>
            /\ file.exists
            /\ \E n \in {Min(10, Len(players))} :
                 /\ C8_Ranked(get_top_players(players, n), players, 10)
                 /\ C9_TextOf(file.text, get_top_players(players, n)))
    /\ [][\A i \in 1..Len(players) :
            i <= Len(players') /\ players'[i].key = players[i].key]_vars

C9_Dropped(lines, mine) ==
    /\ Len(lines) = 10
    /\ \E i \in 1..Len(mine) : \A k \in 1..10 : lines[k] # mine[i]

C9_Witness ==
    /\ last.op = "add" /\ last.ok /\ last.saved
    /\ Len(players) = 11
    /\ C9_Dropped(DataLines(file), [i \in 1..Len(players) |-> LineOf(players[i].rec)])

====
